---- MODULE Spec2Model ----
(***************************************************************************)
(* End-to-end computer-vision workshop: the SageMaker pipeline notebook    *)
(* (preprocess -> Spot/OnDemand training -> evaluation -> accuracy         *)
(* condition -> model registration) and the standalone workshop modules    *)
(* (preprocessing, training/tuning, evaluation, deployment) that hand      *)
(* data to one another through S3.                                         *)
(*                                                                         *)
(* S3 keys are sequences of path segments; a trailing "/" of a URI is an   *)
(* empty last segment.  S3 contents are records.                           *)
(***************************************************************************)
EXTENDS Integers, Sequences, FiniteSets, TLC

\* ---------------------------------------------------------------- bounds
\* number of pipeline executions that are started (pipeline.start())
MaxExec == 2

\* ------------------------------------------------------ program constants
\* right=0.7 of cond_gte, in hundredths
Threshold == 70

\* accuracies an evaluation job can report, in hundredths
Accuracies == {Threshold - 1, Threshold, Threshold + 1}

prefix == "cv-sagemaker-immersionday"
model_package_group_name == <<prefix, "-model-group">>
s3_raw_data == <<prefix, "full", "data">>

\* pipeline parameters and their default values
DefaultClassSelection == "13, 17, 35, 36, 47, 68, 73, 87"
ClassSelections == {DefaultClassSelection, "13, 17"}
DefaultParams ==
    [ProcessingInstanceCount |-> "1", InputDataUrl |-> s3_raw_data,
     AnnotationFileName |-> "classes.txt", ClassSelection |-> DefaultClassSelection]
ParamValues == {[DefaultParams EXCEPT !.ClassSelection = c] : c \in ClassSelections}

\* caching left disabled
cache_config_disabled == [enable_caching |-> FALSE, expire_after |-> "30d"]

\* CacheConfig(enable_caching=True, expire_after="30d")
cache_config == [enable_caching |-> TRUE, expire_after |-> "30d"]

\* ------------------------------------------------------------ the steps
training_options == <<"Spot", "OnDemand">>
Variants == {training_options[i] : i \in DOMAIN training_options}

step_process == [kind |-> "PreProcess", t |-> "All"]
training_steps(t) == [kind |-> "Train", t |-> t]
eval_steps(t) == [kind |-> "Eval", t |-> t]
model_register_steps(t) == [kind |-> "Register", t |-> t]
condition_steps(t) == [kind |-> "Condition", t |-> t]

AllSteps ==
    {step_process} \cup {training_steps(t) : t \in Variants}
      \cup {eval_steps(t) : t \in Variants}
      \cup {model_register_steps(t) : t \in Variants}
      \cup {condition_steps(t) : t \in Variants}

\* steps = [step_process] + training steps + eval steps + condition steps
steps ==
    <<step_process>>
      \o [i \in DOMAIN training_options |-> training_steps(training_options[i])]
      \o [i \in DOMAIN training_options |-> eval_steps(training_options[i])]
      \o [i \in DOMAIN training_options |-> condition_steps(training_options[i])]
TopLevel == {steps[i] : i \in DOMAIN steps}

\* the register step left out of the if-branch
if_steps_empty(t) == {}

\* ConditionStep(if_steps=[model_register_steps[t]], else_steps=[])
if_steps(t) == {model_register_steps(t)}
else_steps(t) == {}

\* ------------------------------------------------ S3 locations of the steps
output_s3_uri == <<prefix, "outputs", "pipelines", "uuid4">>
model_path == output_s3_uri \o <<"models">>

\* the outputs of step_process: output_name -> [source, destination]
ProcessOutputs ==
    [train_data |-> [source |-> <<"opt", "ml", "processing", "output", "train">>,
                     destination |-> output_s3_uri \o <<"train">>],
     val_data   |-> [source |-> <<"opt", "ml", "processing", "output", "validation">>,
                     destination |-> output_s3_uri \o <<"validation">>],
     test_data  |-> [source |-> <<"opt", "ml", "processing", "output", "test">>,
                     destination |-> output_s3_uri \o <<"test">>],
     manifest   |-> [source |-> <<"opt", "ml", "processing", "output", "manifest">>,
                     destination |-> output_s3_uri \o <<"manifest">>]]

\* a reference to a property of another step, resolved at run time
Ref(s, name) == [step |-> s, output |-> name]
\* a plain S3 location
Static(uri) == [uri |-> uri]
IsRef(r) == "step" \in DOMAIN r

\* inputs = {'train': train_in, 'test': test_in, 'validation': val_in}
inputs ==
    [train      |-> Ref(step_process, "train_data"),
     test       |-> Ref(step_process, "test_data"),
     validation |-> Ref(step_process, "val_data")]

\* models[t] = step_train.properties.ModelArtifacts.S3ModelArtifacts
models(t) == Ref(training_steps(t), "S3ModelArtifacts")

\* the model input given as a fixed location instead of models[t]
EvalInputsFixedModel(t) ==
    <<[source |-> Ref(step_process, "test_data"),
       destination |-> "/opt/ml/processing/input/test"],
      [source |-> Ref(step_process, "manifest"),
       destination |-> "/opt/ml/processing/input/manifest"],
      [source |-> Static(model_path \o <<"model.tar.gz">>),
       destination |-> "/opt/ml/processing/model"]>>

\* the ProcessingInputs of step_eval
EvalInputs(t) ==
    <<[source |-> Ref(step_process, "test_data"),
       destination |-> "/opt/ml/processing/input/test"],
      [source |-> Ref(step_process, "manifest"),
       destination |-> "/opt/ml/processing/input/manifest"],
      [source |-> models(t), destination |-> "/opt/ml/processing/model"]>>

\* the single ProcessingOutput of step_eval (no destination given: the
\* location is fixed when the step's arguments are built)
EvalOutputs(t) ==
    <<[output_name |-> "evaluation", source |-> <<"opt", "ml", "processing", "evaluation">>,
       S3Uri |-> <<prefix, "-evaluation", t, "output", "evaluation">>]>>

\* PropertyFile(name=f"Evaluation{t}Report", output_name="evaluation",
\*              path="evaluation.json")
evaluation_report(t) == [output_name |-> "evaluation", path |-> "evaluation.json"]
eval_reports(t) == evaluation_report(t)

\* model_metrics: "{}/evaluation.json".format(Outputs[0].S3Uri), a string
\* built once, when the notebook cell runs
model_metrics(t) ==
    [s3_uri |-> EvalOutputs(t)[1].S3Uri \o <<"evaluation.json">>,
     content_type |-> "application/json"]

\* JsonGet(step_name=eval_steps[t].name, property_file=eval_reports[t],
\*         json_path="multiclass_classification_metrics.accuracy.value")
cond_left(t) ==
    [step |-> eval_steps(t), property_file |-> eval_reports(t),
     json_path |-> <<"multiclass_classification_metrics", "accuracy", "value">>]

\* the comparison turned around (ConditionLessThanOrEqualTo)
cond_lte(left, right) == left <= right

\* ConditionGreaterThanOrEqualTo(left, right=0.7)
cond_gte(left, right) == left >= right

\* HyperparameterTuner(max_jobs=2, max_parallel_jobs=2)
max_jobs == 2
max_parallel_jobs == 2

\* a tuner that runs three jobs, all of them at once
tuner_three_parallel ==
    [objective_metric_name |-> "val_acc", objective_type |-> "Maximize",
     max_jobs |-> max_jobs + 1, max_parallel_jobs |-> max_parallel_jobs + 1]

\* tuner = HyperparameterTuner(estimator, objective_metric_name, ...,
\*                             objective_type="Maximize", max_jobs=2,
\*                             max_parallel_jobs=2)
tuner ==
    [objective_metric_name |-> "val_acc", objective_type |-> "Maximize",
     max_jobs |-> max_jobs, max_parallel_jobs |-> max_parallel_jobs]

\* the training jobs of the tuning job, none launched yet
JobIds == 1..tuner.max_jobs
NoJobs == [j \in JobIds |-> [status |-> "Pending", val_acc |-> 0]]

\* a notebook variable no cell has assigned yet
Undefined == "undefined"

\* ------------------------------------------------------------------ state
VARIABLES
    execution,  \* number of executions started so far (pipeline.start())
    params,     \* parameter values of the current execution
    status,     \* step -> NotStarted | Executing | Succeeded | Failed
    started,    \* steps of the current execution that started a new job
    args,       \* step -> the arguments it was called with
    props,      \* step -> the properties (outputs) of the step
    branch,     \* variant -> the branch its condition step chose
    cache,      \* successful step executions the service can reuse
    expired,    \* the cached executions have passed expire_after
    prev,       \* params, status, args and props of the execution before
    s3,         \* S3 key -> content
    registry,   \* model versions of the model registry
    pc,         \* the workshop cell that runs next
    reads,      \* the S3 inputs the workshop modules have read so far
    jobs,       \* the training jobs of the tuning job
    best_model_uri, \* training notebook: artefact of the best training job
    endpoints,  \* deployment notebook: the endpoints deployed
    tf_endpoint_name, \* deployment notebook: the variable tf_endpoint_name
    predictor,  \* deployment notebook: the variable predictor
    calls       \* deployment notebook: the inference calls made

\* the state of the standalone workshop modules
dvars == <<tf_endpoint_name, predictor, calls>>
wvars == <<pc, reads, jobs, best_model_uri, endpoints, dvars>>
\* the state of the pipeline service
pvars == <<execution, params, status, started, args, props, branch, cache,
           expired, prev, registry>>
vars == <<pvars, s3, wvars>>

NoProps == [x \in {} |-> x]
Fresh == [s \in AllSteps |-> "NotStarted"]
Blank == [s \in AllSteps |-> NoProps]
NoBranch == [t \in Variants |-> "none"]

\* ------------------------------------------------- dependency inference
\* the property references that occur in the arguments of a step
StepRefs(s) ==
    CASE s.kind = "PreProcess" -> {}
      [] s.kind = "Train"      -> {inputs[c] : c \in DOMAIN inputs}
      [] s.kind = "Eval"       -> {EvalInputs(s.t)[i].source : i \in DOMAIN EvalInputs(s.t)}
      [] s.kind = "Condition"  -> {Ref(cond_left(s.t).step, cond_left(s.t).property_file.output_name)}
      [] s.kind = "Register"   -> {models(s.t)}

\* a step depends on every step whose output its arguments reference
DependsOn(s) == {r.step : r \in {x \in StepRefs(s) : IsRef(x)}}

Resolve(r) == IF IsRef(r) THEN props[r.step][r.output] ELSE r.uri

\* a step is part of the execution when it is a top-level step or lies in
\* the branch its condition step chose
Selected(s) ==
    \/ s \in TopLevel
    \/ \E t \in Variants : branch[t] = "if" /\ s \in if_steps(t)
    \/ \E t \in Variants : branch[t] = "else" /\ s \in else_steps(t)

\* an execution that starts no further step once any step has failed
ReadyUnlessFailed(s) ==
    /\ execution >= 1
    /\ status[s] = "NotStarted"
    /\ Selected(s)
    /\ \A d \in DependsOn(s) : status[d] = "Succeeded"
    /\ \A x \in AllSteps : status[x] # "Failed"

\* "If a step has a dependency on the output from a previous step, it's not
\* executed until after that step has completed successfully."
Ready(s) ==
    /\ execution >= 1
    /\ status[s] = "NotStarted"
    /\ Selected(s)
    /\ \A d \in DependsOn(s) : status[d] = "Succeeded"

Quiescent ==
    /\ \A s \in AllSteps : status[s] # "Executing"
    /\ \A s \in AllSteps : ~Ready(s)

\* ------------------------------------------------------ step arguments
ProcessArgs ==
    [code |-> "preprocess.py",
     job_arguments |-> <<"--classes", params.ClassSelection,
                         "--input-data", params.AnnotationFileName>>,
     inputs |-> <<params.InputDataUrl>>,
     instance_count |-> params.ProcessingInstanceCount,
     outputs |-> ProcessOutputs]

TrainArgs(t) ==
    [entry_point |-> "train-mobilenet.py",
     inputs |-> [c \in DOMAIN inputs |-> Resolve(inputs[c])],
     output_path |-> model_path,
     use_spot_instances |-> (t = "Spot")]

EvalArgs(t) ==
    [code |-> "evaluation.py",
     inputs |-> [i \in DOMAIN EvalInputs(t) |-> Resolve(EvalInputs(t)[i].source)],
     outputs |-> EvalOutputs(t)]

Args(s) ==
    CASE s.kind = "PreProcess" -> ProcessArgs
      [] s.kind = "Train"      -> TrainArgs(s.t)
      [] s.kind = "Eval"       -> EvalArgs(s.t)

\* the step types this pipeline uses that support step caching
Cacheable(s) == s.kind \in {"PreProcess", "Train", "Eval"}

\* a lookup that also compares the data the arguments point to
CacheEntriesSameData(s) ==
    IF cache_config.enable_caching
    THEN {e \in cache :
            /\ e.step = s /\ e.args = Args(s)
            /\ s.kind = "Train" =>
                 s3[e.props.S3ModelArtifacts].trained_on = s3[Args(s).inputs.train]}
    ELSE {}

\* "it attempts to find a previous execution of a step that was called with
\* the same arguments"
CacheEntries(s) ==
    IF cache_config.enable_caching
    THEN {e \in cache : e.step = s /\ e.args = Args(s)}
    ELSE {}

\* -------------------------------------------------------------- S3, JSON
Put(store, key, content) ==
    [k \in DOMAIN store \cup {key} |-> IF k = key THEN content ELSE store[k]]

Exists(key) == key \in DOMAIN s3

RECURSIVE JsonPath(_, _)
\* the value at a path of field names of a JSON object
JsonPath(obj, path) ==
    IF path = <<>> THEN obj ELSE JsonPath(obj[Head(path)], Tail(path))

\* JsonGet: the value at json_path of the property file of a step, read
\* from the step's output with the property file's output_name
JsonGet(get) ==
    JsonPath(s3[props[get.step][get.property_file.output_name]
                  \o <<get.property_file.path>>],
             get.json_path)

\* the report evaluation.py saves as evaluation.json
EvaluationReport(a) ==
    [multiclass_classification_metrics |-> [accuracy |-> [value |-> a]]]

\* the splits preprocess.py writes, one per output channel
ProcessedData(name) ==
    [kind |-> "split", channel |-> name,
     raw |-> s3[params.InputDataUrl].name, classes |-> params.ClassSelection]

\* the store after a processing job has uploaded all its outputs
PutOutputs(store, outputs) ==
    LET dest == {outputs[n].destination : n \in DOMAIN outputs}
        Name(k) == CHOOSE n \in DOMAIN outputs : outputs[n].destination = k
    IN [k \in DOMAIN store \cup dest |->
          IF k \in dest THEN ProcessedData(Name(k)) ELSE store[k]]

\* S3ModelArtifacts of a training job: output_path/<job name>/output/model.tar.gz
ModelArtifacts(t) ==
    model_path \o <<t, ToString(execution), "output", "model.tar.gz">>

\* ------------------------------------------------------------- the service
Init ==
    /\ execution = 0
    /\ params = DefaultParams
    /\ status = Fresh
    /\ started = {}
    /\ args = Blank
    /\ props = Blank
    /\ branch = NoBranch
    /\ cache = {}
    /\ expired = FALSE
    /\ prev = [params |-> DefaultParams, status |-> Fresh, args |-> Blank,
               props |-> Blank, expired |-> FALSE]
    /\ s3 = Put(<<>>, s3_raw_data, [kind |-> "raw", name |-> "CUB_200_2011"])
    /\ registry = {}
    /\ pc = "pipeline"
    /\ reads = {}
    /\ jobs = NoJobs
    /\ best_model_uri = <<>>
    /\ endpoints = {}
    /\ tf_endpoint_name = Undefined
    /\ predictor = [endpoint_name |-> Undefined]
    /\ calls = {}

\* execution = pipeline.start(), with the defaults or overriding parameters
StartExecution(p) ==
    /\ execution < MaxExec
    /\ Quiescent
    /\ execution' = execution + 1
    /\ params' = p
    /\ status' = Fresh
    /\ started' = {}
    /\ args' = Blank
    /\ props' = Blank
    /\ branch' = NoBranch
    /\ prev' = [params |-> params, status |-> status, args |-> args,
                props |-> props, expired |-> expired]
    /\ expired' = FALSE
    /\ UNCHANGED <<cache, s3, registry, wvars>>

\* a cache hit: the values of the previous execution are propagated, the
\* step is not recomputed
CacheHit(s) ==
    /\ Cacheable(s)
    /\ Ready(s)
    /\ \E e \in CacheEntries(s) :
          /\ status' = [status EXCEPT ![s] = "Succeeded"]
          /\ args' = [args EXCEPT ![s] = Args(s)]
          /\ props' = [props EXCEPT ![s] = e.props]
    /\ UNCHANGED <<execution, params, started, branch, cache, expired, prev,
                   s3, registry, wvars>>

\* no cache hit: the step starts a processing or training job
StartJob(s) ==
    /\ Cacheable(s)
    /\ Ready(s)
    /\ CacheEntries(s) = {}
    /\ status' = [status EXCEPT ![s] = "Executing"]
    /\ args' = [args EXCEPT ![s] = Args(s)]
    /\ started' = started \cup {s}
    /\ UNCHANGED <<execution, params, props, branch, cache, expired, prev,
                   s3, registry, wvars>>

Complete(s, p) ==
    /\ status' = [status EXCEPT ![s] = "Succeeded"]
    /\ props' = [props EXCEPT ![s] = p]
    /\ cache' = cache \cup {[step |-> s, args |-> args[s], props |-> p]}
    /\ UNCHANGED <<execution, params, started, args, branch, expired, prev,
                   registry, wvars>>

\* the preprocessing job writes its four outputs to their destinations
ProcessSucceeds ==
    /\ status[step_process] = "Executing"
    /\ s3' = PutOutputs(s3, ProcessOutputs)
    /\ Complete(step_process,
                [n \in DOMAIN ProcessOutputs |-> ProcessOutputs[n].destination])

\* the training job uploads model.tar.gz under output_path
TrainSucceeds(t) ==
    /\ status[training_steps(t)] = "Executing"
    /\ s3' = Put(s3, ModelArtifacts(t),
                 [kind |-> "model",
                  trained_on |-> s3[args[training_steps(t)].inputs.train]])
    /\ Complete(training_steps(t), [S3ModelArtifacts |-> ModelArtifacts(t)])

\* the evaluation job uploads evaluation.json to its evaluation output
EvalSucceeds(t, a) ==
    /\ status[eval_steps(t)] = "Executing"
    /\ s3' = Put(s3, EvalOutputs(t)[1].S3Uri \o <<"evaluation.json">>,
                 EvaluationReport(a))
    /\ Complete(eval_steps(t),
                [o \in {EvalOutputs(t)[i].output_name : i \in DOMAIN EvalOutputs(t)} |->
                   (CHOOSE x \in {EvalOutputs(t)[i] : i \in DOMAIN EvalOutputs(t)} :
                        x.output_name = o).S3Uri])

\* a job fails (job failure, spot interruption beyond max_wait, ...)
JobFails(s) ==
    /\ status[s] = "Executing"
    /\ status' = [status EXCEPT ![s] = "Failed"]
    /\ UNCHANGED <<execution, params, started, args, props, branch, cache,
                   expired, prev, s3, registry, wvars>>

\* a condition step that chooses its branch and is never marked as finished
EvaluateConditionUnfinished(t) ==
    /\ Ready(condition_steps(t))
    /\ branch' = [branch EXCEPT ![t] =
                    IF cond_gte(JsonGet(cond_left(t)), Threshold)
                    THEN "if" ELSE "else"]
    /\ UNCHANGED <<execution, params, status, started, args, props, cache,
                   expired, prev, s3, registry, wvars>>

\* the condition step evaluates its condition and chooses a branch
EvaluateCondition(t) ==
    /\ Ready(condition_steps(t))
    /\ status' = [status EXCEPT ![condition_steps(t)] = "Succeeded"]
    /\ branch' = [branch EXCEPT ![t] =
                    IF cond_gte(JsonGet(cond_left(t)), Threshold)
                    THEN "if" ELSE "else"]
    /\ UNCHANGED <<execution, params, started, args, props, cache, expired,
                   prev, s3, registry, wvars>>

\* a model version that is registered as approved
ModelVersionApproved(t) ==
    [model_package_group_name |-> model_package_group_name,
     name |-> model_register_steps(t),
     model_data |-> Resolve(models(t)),
     model_metrics |-> model_metrics(t),
     approval_status |-> "Approved",
     execution |-> execution]

\* RegisterModel: a new model version in the model package group; no
\* approval_status is given, so the version starts as PendingManualApproval
ModelVersion(t) ==
    [model_package_group_name |-> model_package_group_name,
     name |-> model_register_steps(t),
     model_data |-> Resolve(models(t)),
     model_metrics |-> model_metrics(t),
     approval_status |-> "PendingManualApproval",
     execution |-> execution]

RegisterModel(t) ==
    /\ Ready(model_register_steps(t))
    /\ status' = [status EXCEPT ![model_register_steps(t)] = "Succeeded"]
    /\ registry' = registry \cup {ModelVersion(t)}
    /\ UNCHANGED <<execution, params, started, args, props, branch, cache,
                   expired, prev, s3, wvars>>

\* more than expire_after passes between two executions
CacheExpires ==
    /\ Quiescent
    /\ cache # {}
    /\ cache' = {}
    /\ expired' = TRUE
    /\ UNCHANGED <<execution, params, status, started, args, props, branch,
                   prev, s3, registry, wvars>>

JobSteps == {s \in AllSteps : Cacheable(s)}

Next ==
    \/ \E p \in ParamValues : StartExecution(p)
    \/ \E s \in JobSteps : CacheHit(s)
    \/ \E s \in JobSteps : StartJob(s)
    \/ ProcessSucceeds
    \/ \E t \in Variants : TrainSucceeds(t)
    \/ \E t \in Variants, a \in Accuracies : EvalSucceeds(t, a)
    \/ \E s \in JobSteps : JobFails(s)
    \/ \E t \in Variants : EvaluateCondition(t)
    \/ \E t \in Variants : RegisterModel(t)
    \/ CacheExpires

Spec == Init /\ [][Next]_vars

TypeOK ==
    /\ execution \in 0..MaxExec
    /\ params \in ParamValues
    /\ status \in [AllSteps -> {"NotStarted", "Executing", "Succeeded", "Failed"}]
    /\ started \subseteq JobSteps
    /\ branch \in [Variants -> {"none", "if", "else"}]
    /\ expired \in BOOLEAN

\* =================================================== the workshop modules
\* the part of a URI before its trailing "/"
Dir(uri) ==
    IF uri # <<>> /\ uri[Len(uri)] = "" THEN SubSeq(uri, 1, Len(uri) - 1) ELSE uri

\* the last segment of a path
Last(path) == path[Len(path)]

\* ---- 01_preprocessing
output_prefix == <<prefix, "outputs">>
preprocessing_output_s3_uri == output_prefix

\* the validation split exported as "validation", as the pipeline step does
PreprocessingOutputsValidation ==
    <<[source |-> <<"opt", "ml", "processing", "output", "train">>,
       destination |-> preprocessing_output_s3_uri \o <<"train">>],
      [source |-> <<"opt", "ml", "processing", "output", "validation">>,
       destination |-> preprocessing_output_s3_uri \o <<"validation">>],
      [source |-> <<"opt", "ml", "processing", "output", "test">>,
       destination |-> preprocessing_output_s3_uri \o <<"test">>],
      [source |-> <<"opt", "ml", "processing", "output", "manifest">>,
       destination |-> preprocessing_output_s3_uri \o <<"manifest">>]>>

\* the outputs of sklearn_processor.run
PreprocessingOutputs ==
    <<[source |-> <<"opt", "ml", "processing", "output", "train">>,
       destination |-> preprocessing_output_s3_uri \o <<"train">>],
      [source |-> <<"opt", "ml", "processing", "output", "valid">>,
       destination |-> preprocessing_output_s3_uri \o <<"valid">>],
      [source |-> <<"opt", "ml", "processing", "output", "test">>,
       destination |-> preprocessing_output_s3_uri \o <<"test">>],
      [source |-> <<"opt", "ml", "processing", "output", "manifest">>,
       destination |-> preprocessing_output_s3_uri \o <<"manifest">>]>>

\* ---- 02_training
\* the validation split read from the validation channel of the pipeline step
val_in_validation == <<prefix, "outputs">> \o <<"validation">>

\* the model copied under the output path of the pipeline's training steps
model_output_path_models == <<prefix, "outputs", "models">>

processed_data_s3_uri == <<prefix, "outputs">>
model_output_path == <<prefix, "outputs", "model">>
train_in == processed_data_s3_uri \o <<"train">>
val_in == processed_data_s3_uri \o <<"valid">>
\* inputs = {'train': train_in, 'validation': val_in}
tuner_inputs == [train |-> train_in, validation |-> val_in]

\* values of the objective metric val_acc, in hundredths
ValAccs == {Threshold, Threshold + 1}

\* the artefact a training job of the tuning job uploads
JobArtifact(j) == <<"cv-hpo", ToString(j), "output", "model.tar.gz">>

\* ---- 03_model_evaluation
s3_images == <<prefix, "outputs", "test", "">>
s3_manifest == <<prefix, "outputs", "manifest">>
s3_model == <<prefix, "outputs", "model", "">>
model_file == "model.tar.gz"
s3_evaluation_output == <<prefix, "outputs", "evaluation">>

\* ---- 05_deployment
bird_model_path == <<prefix, "outputs", "model", "model.tar.gz">>
classes_file == <<prefix, "full", "data", "classes.txt">>
\* tf_endpoint_name='<SAGEMAKER DEPLOYED ENDPOINT NAME>'
EndpointNamePlaceholder == "<SAGEMAKER DEPLOYED ENDPOINT NAME>"
\* predictor.endpoint_name of the endpoint model.deploy creates
EndpointName(option) == "tensorflow-inference-" \o option
sample_prefix == <<prefix, "outputs", "test">>

\* one input read by a module: the key, and whether an object was there
Read(module, kind, uri) ==
    [module |-> module, kind |-> kind, key |-> Dir(uri), found |-> Exists(Dir(uri))]

WorkshopInit ==
    /\ execution = 0
    /\ params = DefaultParams
    /\ status = Fresh
    /\ started = {}
    /\ args = Blank
    /\ props = Blank
    /\ branch = NoBranch
    /\ cache = {}
    /\ expired = FALSE
    /\ prev = [params |-> DefaultParams, status |-> Fresh, args |-> Blank,
               props |-> Blank, expired |-> FALSE]
    /\ registry = {}
    /\ s3 = <<>>
    /\ pc = "upload"
    /\ reads = {}
    /\ jobs = NoJobs
    /\ best_model_uri = <<>>
    /\ endpoints = {}
    /\ tf_endpoint_name = Undefined
    /\ predictor = [endpoint_name |-> Undefined]
    /\ calls = {}

\* !aws s3 cp --recursive ./CUB_200_2011 $s3_raw_data
UploadRawData ==
    /\ pc = "upload"
    /\ s3' = Put(s3, s3_raw_data, [kind |-> "raw", name |-> "CUB_200_2011"])
    /\ pc' = "preprocess"
    /\ UNCHANGED <<pvars, dvars, reads, jobs, best_model_uri, endpoints>>

\* the store after the preprocessing job has uploaded its outputs
PreprocessedStore ==
    LET dest == {PreprocessingOutputs[i].destination : i \in DOMAIN PreprocessingOutputs}
        Out(k) == CHOOSE i \in DOMAIN PreprocessingOutputs :
                      PreprocessingOutputs[i].destination = k
    IN [k \in DOMAIN s3 \cup dest |->
          IF k \in dest
          THEN [kind |-> "split", channel |-> Last(PreprocessingOutputs[Out(k)].source),
                written_by |-> "preprocessing"]
          ELSE s3[k]]

\* sklearn_processor.run(...): the job reads the raw data and uploads the
\* content of its four output directories
RunPreprocessing ==
    /\ pc = "preprocess"
    /\ Exists(s3_raw_data)
    /\ reads' = reads \cup {Read("preprocessing", "raw", s3_raw_data)}
    /\ s3' = PreprocessedStore
    /\ pc' = "fit"
    /\ UNCHANGED <<pvars, dvars, jobs, best_model_uri, endpoints>>

\* tuner.fit(inputs): the tuning job is created with its input channels
TunerFit ==
    /\ pc = "fit"
    /\ reads' = reads \cup {Read("training", "data", tuner_inputs[c]) : c \in DOMAIN tuner_inputs}
    /\ pc' = "tuning"
    /\ UNCHANGED <<pvars, dvars, s3, jobs, best_model_uri, endpoints>>

InProgress == {j \in JobIds : jobs[j].status = "InProgress"}
Finished == {j \in JobIds : jobs[j].status \in {"Completed", "Failed"}}
Completed == {j \in JobIds : jobs[j].status = "Completed"}

\* the tuning job launches a training job
LaunchTrainingJob(j) ==
    /\ pc = "tuning"
    /\ jobs[j].status = "Pending"
    /\ Cardinality(InProgress) < tuner.max_parallel_jobs
    /\ jobs' = [jobs EXCEPT ![j].status = "InProgress"]
    /\ UNCHANGED <<pvars, dvars, s3, pc, reads, best_model_uri, endpoints>>

\* a training job completes with a value of the objective metric
TrainingJobCompletes(j, v) ==
    /\ pc = "tuning"
    /\ jobs[j].status = "InProgress"
    /\ \A c \in DOMAIN tuner_inputs : Exists(tuner_inputs[c])
    /\ jobs' = [jobs EXCEPT ![j] = [status |-> "Completed", val_acc |-> v]]
    /\ s3' = Put(s3, JobArtifact(j), [kind |-> "model", job |-> j, trained_on |-> s3[tuner_inputs.train]])
    /\ UNCHANGED <<pvars, dvars, pc, reads, best_model_uri, endpoints>>

TrainingJobFails(j) ==
    /\ pc = "tuning"
    /\ jobs[j].status = "InProgress"
    /\ jobs' = [jobs EXCEPT ![j].status = "Failed"]
    /\ UNCHANGED <<pvars, dvars, s3, pc, reads, best_model_uri, endpoints>>

\* tuner.fit returns when every training job has ended
FitReturns ==
    /\ pc = "tuning"
    /\ Finished = JobIds
    /\ pc' = "best"
    /\ UNCHANGED <<pvars, dvars, s3, reads, jobs, best_model_uri, endpoints>>

\* the objective minimized: a completed job with the lowest val_acc
BestMinimize(j) ==
    /\ j \in Completed
    /\ \A k \in Completed : jobs[k].val_acc >= jobs[j].val_acc

\* objective_type="Maximize": a completed job no other completed job beats
Best(j) ==
    /\ j \in Completed
    /\ \A k \in Completed : jobs[k].val_acc <= jobs[j].val_acc

\* best_model_uri = tuner.best_estimator()...['S3ModelArtifacts']
BestEstimator ==
    /\ pc = "best"
    /\ \E j \in JobIds :
          /\ Best(j)
          /\ best_model_uri' = JobArtifact(j)
    /\ pc' = "copy"
    /\ UNCHANGED <<pvars, dvars, s3, reads, jobs, endpoints>>

\* !aws s3 cp {best_model_uri} {model_output_path}/model.tar.gz
CopyBestModel ==
    /\ pc = "copy"
    /\ s3' = Put(s3, model_output_path \o <<"model.tar.gz">>, s3[best_model_uri])
    /\ pc' = "evaluate"
    /\ UNCHANGED <<pvars, dvars, reads, jobs, best_model_uri, endpoints>>

\* the inputs of script_processor.run; the model is the file --model-file of
\* the directory the model input is downloaded to
EvaluationReads ==
    {Read("evaluation", "data", s3_images),
     Read("evaluation", "data", s3_manifest),
     Read("evaluation", "model", Dir(s3_model) \o <<model_file>>)}

\* script_processor.run(...) with all its inputs in place
RunEvaluation(a) ==
    /\ pc = "evaluate"
    /\ \A r \in EvaluationReads : r.found
    /\ reads' = reads \cup EvaluationReads
    /\ s3' = Put(s3, s3_evaluation_output \o <<"evaluation.json">>, EvaluationReport(a))
    /\ pc' = "deploy"
    /\ UNCHANGED <<pvars, dvars, jobs, best_model_uri, endpoints>>

\* a cell raises: an input is missing, or no training job completed
CellFails ==
    /\ \/ pc = "evaluate" /\ \E r \in EvaluationReads : ~r.found
       \/ pc = "best" /\ Completed = {}
       \/ pc = "tuning" /\ InProgress # {}
                        /\ \E c \in DOMAIN tuner_inputs : ~Exists(tuner_inputs[c])
    /\ reads' = IF pc = "evaluate" THEN reads \cup EvaluationReads ELSE reads
    /\ pc' = "error"
    /\ UNCHANGED <<pvars, dvars, s3, jobs, best_model_uri, endpoints>>

DeployOptions == {"serverless", "real-time"}
\* the cell of each option, and the cell that follows it
OptionCell == "serverless" :> "deploy" @@ "real-time" :> "deploy2"
AfterOption == "serverless" :> "deploy2" @@ "real-time" :> "predictor"

\* model.deploy(...) of TensorFlowModel(model_data=bird_model_path), as a
\* serverless (Option 1) or a real-time (Option 2) endpoint; the cell binds
\* predictor and tf_endpoint_name to the endpoint it created
DeployModel(option) ==
    /\ pc = OptionCell[option]
    /\ reads' = reads \cup {Read("deployment", "model", bird_model_path)}
    /\ endpoints' = endpoints \cup {[option |-> option, model_data |-> bird_model_path,
                                     name |-> EndpointName(option)]}
    /\ predictor' = [endpoint_name |-> EndpointName(option)]
    /\ tf_endpoint_name' = EndpointName(option)
    /\ pc' = AfterOption[option]
    /\ UNCHANGED <<pvars, s3, jobs, best_model_uri, calls>>

\* "Run either Option 1 or Option 2": the cell of an option is left out,
\* the second one only when the first one was run
SkipOption(option) ==
    /\ pc = OptionCell[option]
    /\ option = "real-time" => endpoints # {}
    /\ pc' = AfterOption[option]
    /\ UNCHANGED <<pvars, dvars, s3, reads, jobs, best_model_uri, endpoints>>

\* the names the cell can assign to tf_endpoint_name: the cell as written,
\* or updated with the name of an endpoint, as its comment asks
EndpointNameInputs == {EndpointNamePlaceholder} \cup {e.name : e \in endpoints}

\* predictor = Predictor(endpoint_name=tf_endpoint_name, ...)
CreatePredictor(name) ==
    /\ pc = "predictor"
    /\ tf_endpoint_name' = name
    /\ predictor' = [endpoint_name |-> name]
    /\ pc' = "classes"
    /\ UNCHANGED <<pvars, s3, reads, jobs, best_model_uri, endpoints, calls>>

\* cv_utils.get_classes_as_list(classes_file, classes): the class names are
\* read from the raw data set
GetClasses ==
    /\ pc = "classes"
    /\ reads' = reads \cup {Read("inference", "raw",
                                 SubSeq(classes_file, 1, Len(classes_file) - 1))}
    /\ pc' = "sample"
    /\ UNCHANGED <<pvars, dvars, s3, jobs, best_model_uri, endpoints>>

\* cv_utils.get_n_random_images(bucket, prefix=f'{prefix}/outputs/test', n=2)
SampleImages ==
    /\ pc = "sample"
    /\ reads' = reads \cup {Read("inference", "data", sample_prefix)}
    /\ pc' = "predict"
    /\ UNCHANGED <<pvars, dvars, s3, jobs, best_model_uri, endpoints>>

\* an endpoint of that name exists
Serves(name) == \E e \in endpoints : e.name = name

\* cv_utils.predict_bird_from_file(inputfile, predictor, possible_classes):
\* the calls go to the endpoint the predictor names
PredictBirds ==
    /\ pc = "predict"
    /\ calls' = calls \cup {[endpoint_name |-> predictor.endpoint_name,
                              served |-> Serves(predictor.endpoint_name)]}
    /\ pc' = IF Serves(predictor.endpoint_name) THEN "done" ELSE "error"
    /\ UNCHANGED <<pvars, s3, reads, jobs, best_model_uri, endpoints,
                   tf_endpoint_name, predictor>>

WorkshopNext ==
    \/ UploadRawData
    \/ RunPreprocessing
    \/ TunerFit
    \/ \E j \in JobIds : LaunchTrainingJob(j)
    \/ \E j \in JobIds, v \in ValAccs : TrainingJobCompletes(j, v)
    \/ \E j \in JobIds : TrainingJobFails(j)
    \/ FitReturns
    \/ BestEstimator
    \/ CopyBestModel
    \/ \E a \in Accuracies : RunEvaluation(a)
    \/ CellFails
    \/ \E o \in DeployOptions : DeployModel(o)
    \/ \E o \in DeployOptions : SkipOption(o)
    \/ \E n \in EndpointNameInputs : CreatePredictor(n)
    \/ GetClasses
    \/ SampleImages
    \/ PredictBirds

\* the modules of the workshop, run in order
WorkshopSpec == WorkshopInit /\ [][WorkshopNext]_vars

\* "You can manually update or update using API to change the status to
\* Approved or Rejected": the update of the notebook's last section, made on
\* a registered version once the execution has ended
ApprovalStatuses == {"Approved", "Rejected"}

UpdateModelPackage(v, st) ==
    /\ execution >= 1
    /\ Quiescent
    /\ v \in registry
    /\ v.approval_status # st
    /\ registry' = (registry \ {v}) \cup {[v EXCEPT !.approval_status = st]}
    /\ UNCHANGED <<execution, params, status, started, args, props, branch,
                   cache, expired, prev, s3, wvars>>

\* the executions are started with the default parameters; an evaluation
\* reports an accuracy that fails or one that meets the condition
RegistryNext ==
    \/ StartExecution(DefaultParams)
    \/ \E s \in JobSteps : CacheHit(s)
    \/ \E s \in JobSteps : StartJob(s)
    \/ ProcessSucceeds
    \/ \E t \in Variants : TrainSucceeds(t)
    \/ \E t \in Variants, a \in {Threshold - 1, Threshold} : EvalSucceeds(t, a)
    \/ \E s \in JobSteps : JobFails(s)
    \/ \E t \in Variants : EvaluateCondition(t)
    \/ \E t \in Variants : RegisterModel(t)
    \/ CacheExpires
    \/ \E v \in registry, st \in ApprovalStatuses : UpdateModelPackage(v, st)

\* the pipeline together with the manual approval of its model versions
RegistrySpec == Init /\ [][RegistryNext]_vars

\* the service runs a step that is ready
LiveSpec ==
    /\ Init /\ [][Next]_vars
    /\ \A t \in Variants : WF_vars(EvaluateCondition(t))
    /\ \A t \in Variants : WF_vars(RegisterModel(t))

\* a started job ends: it succeeds or it fails
ProcessEnds == ProcessSucceeds \/ JobFails(step_process)
TrainEnds(t) == TrainSucceeds(t) \/ JobFails(training_steps(t))
EvalEnds(t) == (\E a \in Accuracies : EvalSucceeds(t, a)) \/ JobFails(eval_steps(t))

\* the service runs every step that is ready, and every started job ends
TerminationSpec ==
    /\ Init /\ [][Next]_vars
    /\ \A s \in JobSteps : WF_vars(CacheHit(s) \/ StartJob(s))
    /\ WF_vars(ProcessEnds)
    /\ \A t \in Variants : WF_vars(TrainEnds(t))
    /\ \A t \in Variants : WF_vars(EvalEnds(t))
    /\ \A t \in Variants : WF_vars(EvaluateCondition(t))
    /\ \A t \in Variants : WF_vars(RegisterModel(t))

\* ================================================================ properties
Succeeded(s) == status[s] = "Succeeded"
Untouched(s) == status[s] = "NotStarted"

\* the accuracy in the evaluation report of variant t (of this execution:
\* written by its evaluation job, or propagated from the cache)
Reported(t) ==
    s3[EvalOutputs(t)[1].S3Uri \o <<"evaluation.json">>]
        .multiclass_classification_metrics.accuracy.value

\* the model versions registered by Register{t}Model in the current execution
Registered(t) ==
    {v \in registry : v.name = model_register_steps(t) /\ v.execution = execution}

\* C1: a step starts only after every step whose output it consumes has
\* succeeded: Train{t} after PreProcess, Eval{t} after PreProcess and
\* Train{t}, Condition{t} after Eval{t}; nothing downstream of a failed step
\* ever starts.
C1_StartsAfterDependencies ==
    \A t \in Variants :
      /\ ~Untouched(training_steps(t)) => Succeeded(step_process)
      /\ ~Untouched(eval_steps(t)) =>
            Succeeded(step_process) /\ Succeeded(training_steps(t))
      /\ ~Untouched(condition_steps(t)) => Succeeded(eval_steps(t))
      /\ ~Untouched(model_register_steps(t)) => Succeeded(condition_steps(t))
      /\ status[step_process] = "Failed" =>
            /\ Untouched(training_steps(t)) /\ Untouched(eval_steps(t))
            /\ Untouched(condition_steps(t)) /\ Untouched(model_register_steps(t))
      /\ status[training_steps(t)] = "Failed" =>
            /\ Untouched(eval_steps(t)) /\ Untouched(condition_steps(t))
            /\ Untouched(model_register_steps(t))
      /\ status[eval_steps(t)] = "Failed" =>
            Untouched(condition_steps(t)) /\ Untouched(model_register_steps(t))

\* one branch has run through its condition step, the other failed in training
C1_Witness ==
    /\ Succeeded(condition_steps("Spot"))
    /\ training_steps("Spot") \in started
    /\ eval_steps("Spot") \in started
    /\ status[training_steps("OnDemand")] = "Failed"
    /\ Untouched(eval_steps("OnDemand"))

\* C2: Register{t}Model runs only if the accuracy BirdClassification{t}Eval
\* reported in that execution is strictly greater than 0.7.
C2_RegisteredOnlyAboveThreshold ==
    \A t \in Variants :
      ~Untouched(model_register_steps(t)) => Reported(t) > Threshold

\* C3: a model whose reported accuracy is below 0.7 is never registered: the
\* register step is only in the if-branch of the condition step, the
\* else-branch is empty and no register step is a top-level step.
C3_BelowThresholdNeverRegistered ==
    \A t \in Variants :
      /\ Succeeded(eval_steps(t)) /\ Reported(t) < Threshold =>
            Untouched(model_register_steps(t)) /\ Registered(t) = {}
      /\ model_register_steps(t) \in if_steps(t)
      /\ else_steps(t) = {}
      /\ model_register_steps(t) \notin TopLevel

\* the condition step of a variant that reported less than 0.7 has run
C3_Witness ==
    /\ Succeeded(eval_steps("OnDemand"))
    /\ Reported("OnDemand") < Threshold
    /\ Succeeded(condition_steps("OnDemand"))
    /\ branch["OnDemand"] = "else"

DataReads(m) == {r.key : r \in {x \in reads : x.module = m /\ x.kind = "data"}}
ModelReads(m) == {r.key : r \in {x \in reads : x.module = m /\ x.kind = "model"}}

\* the output channels found in S3: the directories a preprocessing job
\* has exported
Exported == {k \in DOMAIN s3 : "channel" \in DOMAIN s3[k]}
ExportedChannels == {s3[k].channel : k \in Exported}

Preprocessed == pc \notin {"upload", "preprocess"}
Tuned == pc \notin {"upload", "preprocess", "fit"}
Deployed == pc \in {"predictor", "classes", "sample", "predict", "done"}
Evaluated == Deployed \/ pc \in {"deploy", "deploy2"}
Copied == Evaluated \/ pc = "evaluate"

\* C5: with the modules run in order, every prefix a module reads as input
\* data was written by the preprocessing job: the tuning job reads
\* {prefix}/outputs/train and {prefix}/outputs/valid, the evaluation job
\* {prefix}/outputs/test and {prefix}/outputs/manifest, the inference
\* sampling {prefix}/outputs/test; whatever a module reads, an earlier
\* module wrote (the raw data set and its class list are the upload of the
\* preprocessing notebook).
C5_DataReadWasPreprocessed ==
    /\ \A r \in reads : r.found
    /\ \A r \in reads :
          r.kind = "data" =>
            /\ r.key \in Exported
            /\ s3[r.key].written_by = "preprocessing"
    /\ \A r \in reads : r.kind = "raw" => r.key = s3_raw_data
    /\ Tuned => DataReads("training") =
                  {<<prefix, "outputs", "train">>, <<prefix, "outputs", "valid">>}
    /\ Evaluated => DataReads("evaluation") =
                  {<<prefix, "outputs", "test">>, <<prefix, "outputs", "manifest">>}
    /\ pc \in {"predict", "done"} =>
          DataReads("inference") = {<<prefix, "outputs", "test">>}

\* every module has run and read its data
C5_Witness ==
    /\ pc = "done"
    /\ DataReads("training") # {}
    /\ DataReads("evaluation") # {}
    /\ DataReads("inference") # {}

\* C6: the model artefact is handed over at one known S3 location: the
\* training module copies the best artefact to
\* {prefix}/outputs/model/model.tar.gz, and the evaluation job and the
\* deployment read exactly that object, only after the copy was made.
KnownModelLocation == <<prefix, "outputs", "model", "model.tar.gz">>

C6_ModelHandedOverAtKnownLocation ==
    /\ Copied =>
          /\ Exists(KnownModelLocation)
          /\ s3[KnownModelLocation] = s3[best_model_uri]
    /\ \A r \in reads :
          r.kind = "model" =>
            /\ r.key = KnownModelLocation /\ r.found
            /\ Exists(KnownModelLocation)
            /\ s3[KnownModelLocation] = s3[best_model_uri]
    /\ Evaluated => ModelReads("evaluation") = {KnownModelLocation}
    /\ Deployed =>
          /\ ModelReads("deployment") = {KnownModelLocation}
          /\ \A e \in endpoints : e.model_data = KnownModelLocation

\* the evaluation job and the deployment have read the copied model
C6_Witness ==
    /\ pc = "done"
    /\ ModelReads("evaluation") # {}
    /\ ModelReads("deployment") # {}
    /\ endpoints # {}
    /\ s3[KnownModelLocation].kind = "model"

\* C7: every preprocessing job exports exactly the four output channels
\* train, validation, test and manifest, and every consumer of the validation
\* split reads the channel under the name validation.
PipelineChannels == {Last(ProcessOutputs[n].source) : n \in DOMAIN ProcessOutputs}

C7_EveryJobExportsValidation ==
    /\ PipelineChannels = {"train", "validation", "test", "manifest"}
    /\ Preprocessed => ExportedChannels = {"train", "validation", "test", "manifest"}
    /\ "validation" \in DOMAIN inputs
    /\ "validation" \in DOMAIN tuner_inputs

\* C7, amended: the pipeline step exports train, validation, test and
\* manifest, the standalone preprocessing job exports train, valid, test and
\* manifest; every consumer mounts the validation split as the training
\* channel validation and reads it from the location its producer wrote.
C7_ChannelsOfEachJob ==
    /\ PipelineChannels = {"train", "validation", "test", "manifest"}
    /\ {Last(ProcessOutputs[n].destination) : n \in DOMAIN ProcessOutputs}
          = PipelineChannels
    /\ Preprocessed => ExportedChannels = {"train", "valid", "test", "manifest"}
    /\ Preprocessed => \A k \in Exported : Last(k) = s3[k].channel
    /\ "validation" \in DOMAIN inputs
    /\ Last(ProcessOutputs[inputs.validation.output].source) = "validation"
    /\ "validation" \in DOMAIN tuner_inputs
    /\ Tuned =>
          /\ tuner_inputs.validation \in Exported
          /\ s3[tuner_inputs.validation].channel = "valid"

\* the tuning job runs on the splits the standalone job exported
C7_Witness ==
    /\ pc = "tuning"
    /\ InProgress # {}
    /\ \E r \in reads : r.module = "training" /\ r.found /\ Last(r.key) = "valid"

\* C8: the accuracy that gates registration is the field
\* multiclass_classification_metrics.accuracy.value of evaluation.json in the
\* evaluation output of BirdClassification{t}Eval, and the metrics attached
\* to a registered model version are that same evaluation.json object of the
\* same execution: the object a version's metrics point to is the report the
\* version was registered with, and stays that report.
C8_GateReadsTheReport ==
    \A t \in Variants :
      /\ branch[t] # "none" =>
            (branch[t] = "if" <=> cond_gte(Reported(t), Threshold))
      /\ \A v \in Registered(t) :
            v.model_metrics.s3_uri =
              props[eval_steps(t)]["evaluation"] \o <<"evaluation.json">>

C8_MetricsAreTheReportOfTheExecution ==
    /\ []C8_GateReadsTheReport
    /\ [][\A v \in registry :
            s3'[v.model_metrics.s3_uri] = s3[v.model_metrics.s3_uri]]_vars

\* C9: with caching enabled, an execution that follows, with unchanged input
\* parameters and within the expiry, an execution that trained variant t
\* starts no new training job for t, and its evaluation and registration use
\* the model artefact the previous execution trained (or itself reused).
PreviousTrained(t) ==
    /\ execution >= 2
    /\ params = prev.params
    /\ ~prev.expired
    /\ prev.status[training_steps(t)] = "Succeeded"

PreviousArtifact(t) == prev.props[training_steps(t)]["S3ModelArtifacts"]

C9_RerunSkipsTraining ==
    \A t \in Variants :
      PreviousTrained(t) =>
        /\ training_steps(t) \notin started
        /\ status[training_steps(t)] # "Executing"
        /\ Succeeded(training_steps(t)) =>
              props[training_steps(t)]["S3ModelArtifacts"] = PreviousArtifact(t)
        /\ ~Untouched(eval_steps(t)) =>
              args[eval_steps(t)].inputs[3] = PreviousArtifact(t)
        /\ \A v \in Registered(t) : v.model_data = PreviousArtifact(t)

\* the second execution has registered the model the first one trained
C9_Witness ==
    /\ PreviousTrained("Spot")
    /\ prev.status[training_steps("Spot")] = "Succeeded"
    /\ Succeeded(training_steps("Spot"))
    /\ Succeeded(eval_steps("Spot"))
    /\ \E v \in Registered("Spot") :
          /\ v.model_data = PreviousArtifact("Spot")
          /\ Exists(v.model_data)
          /\ \E w \in registry : w.execution = execution - 1 /\ w.model_data = v.model_data

\* C10: a cache hit depends only on the arguments of a step: when a step that
\* the previous execution completed is called again with the same arguments,
\* the outputs of the previous execution are propagated and no job is
\* started, whatever is stored at the input locations.
CalledAgain(s) ==
    /\ execution >= 2
    /\ prev.status[s] = "Succeeded"
    /\ ~Untouched(s)
    /\ args[s] = prev.args[s]

Propagated(s) ==
    /\ s \notin started
    /\ Succeeded(s)
    /\ props[s] = prev.props[s]

C10_SameArgumentsPropagate ==
    \A s \in JobSteps : CalledAgain(s) => Propagated(s)

\* C10, within the expiry of the cache configuration
C10_SameArgumentsPropagateUntilExpiry ==
    \A s \in JobSteps : CalledAgain(s) /\ ~prev.expired => Propagated(s)

\* a training step is a cache hit although the training data its arguments
\* point to is no longer the data the propagated model was trained on
C10_Witness ==
    \E t \in Variants :
      /\ CalledAgain(training_steps(t)) /\ ~prev.expired
      /\ Propagated(training_steps(t))
      /\ s3[props[training_steps(t)]["S3ModelArtifacts"]].trained_on
           # s3[args[training_steps(t)].inputs.train]

\* the training jobs the tuning job has launched so far
Launched == {j \in JobIds : jobs[j].status # "Pending"}
FitReturned == pc \notin {"upload", "preprocess", "fit", "tuning"}

\* C11: the tuning job runs at most 6 training jobs: it launches training
\* jobs until 6 have been launched, and never a seventh.
C11_LaunchesSixJobs ==
    /\ Cardinality(Launched) <= 6
    /\ FitReturned => Cardinality(Launched) = 6

\* C12: at every moment of the tuning job at most 2 of its training jobs are
\* running in parallel (the tuner runs two jobs in all, so the limit of
\* max_parallel_jobs and the number of jobs coincide).
C12_AtMostTwoInParallel ==
    /\ [](Cardinality(InProgress) <= 2)
    /\ [][\A j \in JobIds :
            jobs[j].status = "Pending" /\ jobs'[j].status = "InProgress"
              => Cardinality(InProgress) < 2]_vars

\* both training jobs of the tuning job are running
C12_Witness ==
    /\ pc = "tuning"
    /\ Cardinality(InProgress) = 2

\* C13: the model chosen after tuning is the best on the objective metric:
\* best_model_uri is the artefact of a completed training job whose val_acc
\* no other completed training job of the tuning job exceeds, and that
\* artefact is the one copied to the known model location.
Chosen == {j \in Completed : best_model_uri = JobArtifact(j)}

C13_BestModelIsChosenAndCopied ==
    /\ pc \notin {"upload", "preprocess", "fit", "tuning", "best", "error"} =>
          /\ Chosen # {}
          /\ \A j \in Chosen, k \in Completed : jobs[k].val_acc <= jobs[j].val_acc
    /\ Copied =>
          /\ Exists(KnownModelLocation)
          /\ \A j \in Chosen : s3[KnownModelLocation].job = j

\* two jobs completed with different values of val_acc and the better one
\* was copied
C13_Witness ==
    /\ pc = "evaluate"
    /\ \E j, k \in Completed : jobs[k].val_acc < jobs[j].val_acc
    /\ \E j \in Chosen : s3[KnownModelLocation].job = j

\* C14: after the cells of the deployment notebook have been executed in
\* order, the predictor that predict_bird_from_file uses is bound to the
\* name of an endpoint this run deployed, and every inference call is sent
\* to an existing endpoint.
C14_PredictorBoundToDeployedEndpoint ==
    /\ pc \in {"classes", "sample", "predict", "done"} =>
          Serves(predictor.endpoint_name)
    /\ \A c \in calls : c.served

\* C15: a run of the deployment notebook deploys through exactly one of the
\* two options, never both: at the end exactly one endpoint serves the
\* model.
C15_ExactlyOneEndpoint ==
    Deployed => Cardinality(endpoints) = 1

\* the same model version: the register step and the execution it ran in
SameVersion(v, w) == v.name = w.name /\ v.execution = w.execution

\* C16: every model version the pipeline registers starts with approval
\* status PendingManualApproval; its status changes only through an explicit
\* update made after the execution, and no step of the pipeline sets a
\* model version to Approved.
C16_ApprovalOnlyByManualUpdate ==
    [][/\ \A w \in registry' :
            (\A v \in registry : ~SameVersion(v, w))
              => w.approval_status = "PendingManualApproval"
       /\ \A v \in registry, w \in registry' :
            SameVersion(v, w) /\ w.approval_status # v.approval_status
              => /\ Quiescent
                 /\ status' = status /\ execution' = execution
                 /\ w.approval_status \in ApprovalStatuses
       /\ status' # status =>
            \A w \in registry' :
              w.approval_status = "Approved"
                => \E v \in registry : SameVersion(v, w) /\ v.approval_status = "Approved"]_vars

\* a registered version was approved by hand, and a later execution has
\* registered a version that is pending
C16_Witness ==
    /\ \E v \in registry : v.approval_status = "Approved" /\ v.execution < execution
    /\ \E v \in registry : v.approval_status = "PendingManualApproval"
                            /\ v.execution = execution

\* the steps of the branch of variant t
Branch(t) ==
    {training_steps(t), eval_steps(t), condition_steps(t), model_register_steps(t)}

Ended(s) == status[s] \in {"Succeeded", "Failed"}
NeverStarted(s) ==
    /\ status[s] = "NotStarted"
    /\ \/ ~Selected(s)
       \/ \E d \in DependsOn(s) : status[d] # "Succeeded"

Terminal == \A s \in AllSteps : Ended(s) \/ NeverStarted(s)

\* C18: every pipeline execution terminates: provided each started job
\* eventually succeeds or fails, the execution reaches a terminal state, in
\* which each of the seven top-level steps and each register step is
\* finished, failed or was never started, and stays there; no step is left
\* waiting forever.
C18_ExecutionTerminates ==
    /\ \A n \in 1..MaxExec :
          (execution = n) ~> (execution = n /\ Terminal)
    /\ [][Terminal /\ execution' = execution => Terminal']_vars
    /\ [](Cardinality(TopLevel) = 7)

\* an execution has ended with a failed training step, an evaluation that
\* was never started behind it, and a registered model in the other branch
C18_Witness ==
    /\ execution >= 1
    /\ Terminal
    /\ status[training_steps("Spot")] = "Failed"
    /\ NeverStarted(eval_steps("Spot"))
    /\ NeverStarted(condition_steps("Spot"))
    /\ Succeeded(model_register_steps("OnDemand"))
    /\ branch["OnDemand"] = "if"

====
